---- MODULE Spec2Model ----
(***************************************************************************)
(* Model of the two Leaflet adapters of SurveryingWebApp:                  *)
(*   js/leafletCrimesWrapper.js   operations named as in the source        *)
(*   js/leafletWrapper.js         operations named as in the source, W_... *)
(* Each file is an ES module with its own module-level state, and a page   *)
(* imports one of them: `wrapper` records which one, and only the          *)
(* operations of that file run in a behaviour.  The module-level           *)
(* variables the two files both declare (map, drawnItems, drawControl,     *)
(* miniMapControl) are the same variables here.                            *)
(*                                                                         *)
(* The Leaflet widget is modelled by the part of its state the adapters    *)
(* can observe: the layers and controls attached to the map instance that  *)
(* `map` refers to, the listeners registered on it, the members of the     *)
(* feature groups, the view.  An object attached to a map instance that    *)
(* was removed or replaced is attached to nothing the adapter can reach.   *)
(* A JavaScript exception ends the call where it is raised: assignments    *)
(* made before that point stay, and `threw` records it.                    *)
(***************************************************************************)
EXTENDS Integers, Sequences, FiniteSets, TLC

\* Bound of the model: the number of objects (tracked handles, overlays, drawn-items
\* groups and controls, drawn shapes, group members, click listeners) the adapter
\* holds or has created at any time.
MaxObjects == 4

\* ------------------------------------------------------------------ inputs
\* ids of DOM elements the host may pass to createMap; "absent" is not in the page
ElementIds == {"map", "map2", "absent"}
DomElements == {"map", "map2"}
\* JavaScript values a coordinate may hold: a number, NaN, a non-numeric string
Num(n) == [t |-> "num", v |-> n]
NaN == [t |-> "nan", v |-> 0]
Str == [t |-> "str", v |-> 0]
\* a === b on such values (NaN equals nothing, itself included)
StrictEq(a, b) == a.t # "nan" /\ a = b
\* isNaN(a): true of NaN and of a string that does not parse as a number
IsNaN(a) == a.t \in {"nan", "str"}
\* (lat, lng) pairs and zoom levels the host passes to createMap / setView
Coords == {<<Num(0), Num(0)>>, <<Num(2), Num(2)>>}
Zooms == {13}
\* values the host passes to fitBounds: null, or a list of corners, a corner being
\* an array of values or something that is not an array
Corner(a, b) == [arr |-> TRUE, els |-> <<a, b>>]
NotArray == [arr |-> FALSE, els |-> <<>>]
Short == [arr |-> TRUE, els |-> <<Num(2)>>]
Bounds(cs) == [nul |-> FALSE, corners |-> cs]
NullBounds == [nul |-> TRUE, corners |-> <<>>]
BoundsInputs ==
    { NullBounds,
      Bounds(<<Corner(Num(0), Num(0))>>),
      Bounds(<<NotArray, Corner(Num(0), Num(0))>>),
      Bounds(<<Corner(Num(0), Num(0)), Short>>),
      Bounds(<<Corner(Num(0), Num(0)), Corner(Num(2), Num(2))>>),
      Bounds(<<Corner(Num(2), Num(2)), Corner(Num(2), Num(2))>>),
      Bounds(<<Corner(NaN, Num(0)), Corner(Num(2), Num(2))>>),
      Bounds(<<Corner(NaN, Num(0)), Corner(NaN, Num(0))>>),
      Bounds(<<Corner(Str, Num(0)), Corner(Num(2), Num(2))>>),
      Bounds(<<Corner(Str, Str), Corner(Str, Str)>>) }

AllPlugins == {"draw", "minimap"}
\* map types the host passes to setMapType
MapTypes == {"osm", "satellite", "terrain"}

VARIABLES
    wrapper,               \* the file the page imported: "crimes" or "wrapper"
    plugins,               \* Leaflet plugins loaded in the page: subset of AllPlugins
    \* ---- module-level state
    map,                   \* let map = null / let map   (0 = none, 1 = a map instance)
    isDisposed,            \* let isDisposed = false                    (crimes)
    markers,               \* let markers = []                          (crimes)
    circles,               \* let circles = []                          (crimes)
    polygons,              \* let polygons = []                         (crimes)
    polylines,             \* let polylines = []                        (crimes)
    geoJsonLayers,         \* let geoJsonLayers = []                    (crimes)
    drawnItems,            \* let drawnItems            (0 = null, else the group)
    drawControl,           \* let drawControl           (0 = none, else the control)
    drawEnabled,           \* let drawEnabled                           (wrapper)
    miniMapControl,        \* let miniMapControl = null (0 = null, else the control)
    investigationMarkers,  \* let investigationMarkers = L.featureGroup() (crimes)
    directionArrows,       \* let directionArrows = L.featureGroup()    (crimes)
    baseLayers,            \* let baseLayers = {}: the keys defined     (wrapper)
    currentBaseLayer,      \* let currentBaseLayer = 'osm'              (wrapper)
    \* ---- Leaflet state of the map instance `map` refers to
    mapRemoved,            \* map.remove() was called on it
    mapLayers,             \* layers attached to it
    mapControls,           \* controls attached to it
    createdHandlers,       \* listeners registered for L.Draw.Event.CREATED
    clickHandlers,         \* listeners registered for 'click'
    view,                  \* its view: centre and zoom
    \* ---- Leaflet state of other objects
    groupLayers,           \* members of the drawn-items groups: pairs <<group, shape>>
    miniMinimized,         \* the mini-map control is minimized
    nextId,                \* next fresh identity for a group, control or shape
    \* ---- the timeline controller addTimelineAnimation returned last
    timeline,              \* its closure: timelineMarkers, currentIndex, timers
    timelineCalls,         \* which of its start / stop / reset were called, in order
    \* ---- the last call, as the host observes it
    lastOp,                \* name of the operation
    ret,                   \* value returned
    threw,                 \* the call ended in an exception
    logged,                \* console output: "none", "warn" or "error"
    deadCall,              \* the call invoked a method on a removed map
    invoked,               \* listeners run by the last map event
    repeated,              \* the call before it was of the same operation
    hadTracked,            \* handles the registry tracked when the call was made
    hadDrawn,              \* members of the drawn-items group when the call was made
    arg                    \* the GeoJSON or bounds argument of the call, if it takes one

envVars == <<wrapper, plugins>>
mapVars == <<map, mapRemoved, isDisposed>>
regVars == <<markers, circles, polygons, polylines, geoJsonLayers>>
invVars == <<investigationMarkers, directionArrows>>
drawVars == <<drawnItems, drawControl, drawEnabled, groupLayers, createdHandlers>>
miniVars == <<miniMapControl, miniMinimized>>
baseVars == <<baseLayers, currentBaseLayer>>
widgetVars == <<mapLayers, mapControls, view, clickHandlers>>
stateVars == <<mapVars, regVars, invVars, drawVars, miniVars, baseVars, widgetVars, nextId>>
obsVars == <<lastOp, ret, threw, logged, deadCall, invoked, repeated, hadTracked,
            hadDrawn, arg>>
timeVars == <<timeline, timelineCalls>>
vars == <<envVars, stateVars, timeVars, obsVars>>

\* ------------------------------------------------------------ Leaflet objects
\* A Leaflet object: its kind and its identity among the objects of that kind.
\* A handle tracked by leafletCrimesWrapper.js is identified by its position in its
\* list: once dropped from its list and from the map nothing in the adapter refers
\* to it.  An overlay of leafletWrapper.js, which keeps no lists, is identified by
\* the least number no attached overlay of its kind has.
Obj(kind, id) == [kind |-> kind, id |-> id]
Undefined == Obj("undefined", 0)
Null == Obj("null", 0)
TheMap == Obj("map", 1)
OsmTiles == Obj("tile", 1)
SatelliteTiles == Obj("tile", 2)
LayersControl == Obj("layers", 0)
OverlayKinds == {"marker", "circle", "polygon", "polyline", "structure", "rectangle",
                 "geojson"}
Overlays == {o \in mapLayers : o.kind \in OverlayKinds}

\* The view of a map: centre and zoom as set by map.setView, or the centre of the
\* bounds with the zoom the widget computes (how = "fitBounds", zoom 0) after map.fitBounds
NoView == [lat |-> Num(0), lng |-> Num(0), zoom |-> 0, how |-> "none"]
ViewOf(c, z) == [lat |-> c[1], lng |-> c[2], zoom |-> z, how |-> "setView"]
\* a midpoint that is the first of the two values
MidIsFirst(a, b) == a
Mid(a, b) == Num((a.v + b.v) \div 2)
FitOf(b) == [lat |-> Mid(b.corners[1].els[1], b.corners[2].els[1]),
             lng |-> Mid(b.corners[1].els[2], b.corners[2].els[2]),
             zoom |-> 0, how |-> "fitBounds"]
\* a feature group: whether it is attached to the map, and its members in order
EmptyGroup == [on |-> FALSE, items |-> <<>>]

\* objects held or created so far, against the bound
Used == (nextId - 1) + Len(markers) + Len(circles) + Len(polygons) + Len(polylines)
          + Len(geoJsonLayers) + Len(investigationMarkers.items)
          + Len(directionArrows.items) + clickHandlers
          + (IF wrapper = "wrapper" THEN Cardinality(Overlays) ELSE 0)
CanCreate(k) == Used + k <= MaxObjects

\* A call on a map that was removed is outside Leaflet's contract: the widget either
\* raises a TypeError on the first such call or tolerates it without attaching anything.
DeadThrows == IF map # 0 /\ mapRemoved THEN BOOLEAN ELSE {FALSE}
MapLive == map # 0 /\ ~mapRemoved

\* The members of the one drawn-items group the adapter can still reach once the map
\* instance is gone: the group `d` that drawnItems refers to.  The other groups were
\* attached to that instance only, and are garbage.
Reachable(d) == {p \in groupLayers : p[1] = d}

\* the handles the registry tracks
Range(s) == {s[i] : i \in 1..Len(s)}
Tracked == Range(markers) \cup Range(circles) \cup Range(polygons)
             \cup Range(polylines) \cup Range(geoJsonLayers)

\* what the host observes of a call made with the GeoJSON or bounds argument a
Seen(op, a, r, t, lg, dc) ==
    /\ lastOp' = op
    /\ arg' = a
    /\ ret' = r
    /\ threw' = t
    /\ logged' = lg
    /\ deadCall' = dc
    /\ invoked' = 0
    /\ repeated' = (lastOp = op)
    /\ hadTracked' = Cardinality(Tracked)
    /\ hadDrawn' = Cardinality(Reachable(drawnItems))
    /\ UNCHANGED envVars
\* a call of an exported operation other than addTimelineAnimation: the closure of
\* a timeline controller is out of its reach
Call(op, a, r, t, lg, dc) == Seen(op, a, r, t, lg, dc) /\ UNCHANGED timeVars
\* what the host observes of a call
Out(op, r, t, lg, dc) == Call(op, Undefined, r, t, lg, dc)
\* a map event `ev` that ran n listeners
Event(ev, n) ==
    /\ lastOp' = ev
    /\ invoked' = n
    /\ ret' = Undefined /\ threw' = FALSE /\ logged' = "none" /\ deadCall' = FALSE
    /\ repeated' = (lastOp = ev)
    /\ hadTracked' = Cardinality(Tracked)
    /\ hadDrawn' = Cardinality(Reachable(drawnItems))
    /\ arg' = Undefined
    /\ UNCHANGED <<envVars, timeVars>>
\* a call that returns undefined and does nothing
Skip(op) == Out(op, Undefined, FALSE, "none", FALSE) /\ UNCHANGED stateVars
\* a call that raises a TypeError before it changed anything
Throw(op) == Out(op, Undefined, TRUE, "none", FALSE) /\ UNCHANGED stateVars

\* The closure of a timeline controller: whether one was returned, the number of
\* timelineMarkers, currentIndex, the markers at opacity 1 (numbered from 1) and
\* the setTimeout callbacks scheduled and not yet run
NewTimeline(n) == [made |-> TRUE, n |-> n, currentIndex |-> 0, lit |-> {}, pending |-> 0]
NoTimeline == [made |-> FALSE, n |-> 0, currentIndex |-> 0, lit |-> {}, pending |-> 0]
\* The calls made on the controller: start was called; stop was called and start
\* was not called since; reset was called after that stop; and whether none, one
\* or more calls were made in all
NoCalls == [started |-> FALSE, stopped |-> FALSE, reset |-> FALSE, calls |-> 0]
OneMore(calls) == IF calls = 0 THEN 1 ELSE 2

\* ------------------------------------------------------------------- Init
\* the state after the module was evaluated
Init ==
    /\ wrapper \in {"crimes", "wrapper"}
    /\ plugins \in SUBSET AllPlugins
    /\ map = 0
    /\ isDisposed = FALSE
    /\ markers = <<>> /\ circles = <<>> /\ polygons = <<>> /\ polylines = <<>>
    /\ geoJsonLayers = <<>>
    /\ drawnItems = IF wrapper = "wrapper" THEN 1 ELSE 0
    /\ drawControl = 0
    /\ drawEnabled = FALSE
    /\ miniMapControl = 0
    /\ investigationMarkers = EmptyGroup
    /\ directionArrows = EmptyGroup
    /\ baseLayers = {}
    /\ currentBaseLayer = "osm"
    /\ mapRemoved = FALSE
    /\ mapLayers = {}
    /\ mapControls = {}
    /\ createdHandlers = 0
    /\ clickHandlers = 0
    /\ view = NoView
    /\ groupLayers = {}
    /\ miniMinimized = FALSE
    /\ nextId = IF wrapper = "wrapper" THEN 2 ELSE 1
    /\ lastOp = "load" /\ ret = Undefined /\ threw = FALSE /\ logged = "none"
    /\ deadCall = FALSE /\ invoked = 0 /\ repeated = FALSE /\ hadTracked = 0
    /\ hadDrawn = 0 /\ arg = Undefined
    /\ timeline = NoTimeline /\ timelineCalls = NoCalls

\* =================================================== leafletCrimesWrapper.js
\* ---- createMap(elementId, lat, lng, zoom)
\* a createMap that does not look at isDisposed
createMapWhenDisposed ==
    /\ wrapper = "crimes"
    /\ \E elementId \in ElementIds, c \in Coords, zoom \in Zooms :
        IF FALSE
        THEN /\ Out("createMap", Undefined, FALSE, "warn", FALSE)
             /\ UNCHANGED stateVars
        ELSE \* if (map) { try { map.remove() } catch ... }: everything attached to the
             \* old instance goes with it; the module variables keep their references
             /\ mapLayers' = IF elementId \in DomElements THEN {OsmTiles} ELSE {}
             /\ mapControls' = {}
             /\ investigationMarkers' = [investigationMarkers EXCEPT !.on = FALSE]
             /\ directionArrows' = [directionArrows EXCEPT !.on = FALSE]
             /\ IF elementId \in DomElements
                THEN /\ map' = 1
                     /\ mapRemoved' = FALSE
                     /\ createdHandlers' = 0
                     /\ clickHandlers' = 0
                     /\ view' = ViewOf(c, zoom)
                     /\ Out("createMap", TheMap, FALSE,
                            IF map # 0 /\ mapRemoved THEN "warn" ELSE "none",
                            map # 0 /\ mapRemoved)
                ELSE \* L.map(elementId) throws "Map container not found": caught; map
                     \* keeps referring to the instance that was just removed
                     /\ mapRemoved' = (map # 0)
                     /\ Out("createMap", Null, FALSE, "error", map # 0 /\ mapRemoved)
                     /\ UNCHANGED <<map, createdHandlers, clickHandlers, view>>
             /\ groupLayers' = Reachable(drawnItems)
             /\ UNCHANGED <<isDisposed, regVars, drawnItems, drawControl, drawEnabled,
                            miniVars, baseVars, nextId>>

createMap ==
    /\ wrapper = "crimes"
    /\ \E elementId \in ElementIds, c \in Coords, zoom \in Zooms :
        IF isDisposed
        THEN /\ Out("createMap", Undefined, FALSE, "warn", FALSE)
             /\ UNCHANGED stateVars
        ELSE \* if (map) { try { map.remove() } catch ... }: everything attached to the
             \* old instance goes with it; the module variables keep their references
             /\ mapLayers' = IF elementId \in DomElements THEN {OsmTiles} ELSE {}
             /\ mapControls' = {}
             /\ investigationMarkers' = [investigationMarkers EXCEPT !.on = FALSE]
             /\ directionArrows' = [directionArrows EXCEPT !.on = FALSE]
             /\ IF elementId \in DomElements
                THEN /\ map' = 1
                     /\ mapRemoved' = FALSE
                     /\ createdHandlers' = 0
                     /\ clickHandlers' = 0
                     /\ view' = ViewOf(c, zoom)
                     /\ Out("createMap", TheMap, FALSE,
                            IF map # 0 /\ mapRemoved THEN "warn" ELSE "none",
                            map # 0 /\ mapRemoved)
                ELSE \* L.map(elementId) throws "Map container not found": caught; map
                     \* keeps referring to the instance that was just removed
                     /\ mapRemoved' = (map # 0)
                     /\ Out("createMap", Null, FALSE, "error", map # 0 /\ mapRemoved)
                     /\ UNCHANGED <<map, createdHandlers, clickHandlers, view>>
             /\ groupLayers' = Reachable(drawnItems)
             /\ UNCHANGED <<isDisposed, regVars, drawnItems, drawControl, drawEnabled,
                            miniVars, baseVars, nextId>>

\* ---- the registry add operations
\* the list an operation tracks its handles in
ListOf(kind) ==
    CASE kind = "marker" -> markers
      [] kind = "circle" -> circles
      [] kind = "polygon" -> polygons
      [] kind = "polyline" -> polylines
      [] kind = "geojson" -> geoJsonLayers
\* a registry that puts the new handle in front (unshift for push)
TrackInFront(kind, h) ==
    /\ markers' = IF kind = "marker" THEN <<h>> \o markers ELSE markers
    /\ circles' = IF kind = "circle" THEN <<h>> \o circles ELSE circles
    /\ polygons' = IF kind = "polygon" THEN <<h>> \o polygons ELSE polygons
    /\ polylines' = IF kind = "polyline" THEN <<h>> \o polylines ELSE polylines
    /\ geoJsonLayers' = IF kind = "geojson" THEN <<h>> \o geoJsonLayers ELSE geoJsonLayers
\* <list>.push(h)
Track(kind, h) ==
    /\ markers' = IF kind = "marker" THEN Append(markers, h) ELSE markers
    /\ circles' = IF kind = "circle" THEN Append(circles, h) ELSE circles
    /\ polygons' = IF kind = "polygon" THEN Append(polygons, h) ELSE polygons
    /\ polylines' = IF kind = "polyline" THEN Append(polylines, h) ELSE polylines
    /\ geoJsonLayers' = IF kind = "geojson" THEN Append(geoJsonLayers, h) ELSE geoJsonLayers

\* an add operation without the `if (!map) return` guard
AddOverlayUnguarded(op, kind) ==
    /\ wrapper = "crimes"
    /\ IF map = 0
       THEN Throw(op)
       ELSE /\ CanCreate(1)
            /\ \E t \in DeadThrows :
                LET h == Obj(kind, Len(ListOf(kind)) + 1) IN
                /\ mapLayers' = IF mapRemoved THEN mapLayers ELSE mapLayers \cup {h}
                /\ IF t
                   THEN /\ Out(op, Undefined, TRUE, "none", TRUE)
                        /\ UNCHANGED regVars
                   ELSE /\ Out(op, h, FALSE, "none", mapRemoved)
                        /\ Track(kind, h)
            /\ UNCHANGED <<mapVars, invVars, drawVars, miniVars, baseVars, mapControls,
                           view, clickHandlers, nextId>>

\* if (!map) return; const x = L.<kind>(...).addTo(map); <list>.push(x); return x;
AddOverlay(op, kind) ==
    /\ wrapper = "crimes"
    /\ IF map = 0
       THEN Skip(op)
       ELSE /\ CanCreate(1)
            /\ \E t \in DeadThrows :
                LET h == Obj(kind, Len(ListOf(kind)) + 1) IN
                /\ mapLayers' = IF mapRemoved THEN mapLayers ELSE mapLayers \cup {h}
                /\ IF t
                   THEN /\ Out(op, Undefined, TRUE, "none", TRUE)
                        /\ UNCHANGED regVars
                   ELSE /\ Out(op, h, FALSE, "none", mapRemoved)
                        /\ Track(kind, h)
            /\ UNCHANGED <<mapVars, invVars, drawVars, miniVars, baseVars, mapControls,
                           view, clickHandlers, nextId>>

addMarker == AddOverlay("addMarker", "marker")
addCircle == AddOverlay("addCircle", "circle")
addPolygon == AddOverlay("addPolygon", "polygon")
addPolyline == AddOverlay("addPolyline", "polyline")
addGeoJson == AddOverlay("addGeoJson", "geojson")
addGeoJsonWithPopup == AddOverlay("addGeoJsonWithPopup", "geojson")

\* a clearMap() that leaves out the pass over geoJsonLayers
clearMapKeepsGeoJson ==
    /\ wrapper = "crimes"
    /\ IF map = 0
       THEN Skip("clearMap")
       ELSE /\ mapLayers' = mapLayers \ (Tracked \ Range(geoJsonLayers))
            /\ markers' = <<>>
            /\ circles' = <<>>
            /\ polygons' = <<>>
            /\ polylines' = <<>>
            /\ Out("clearMap", Undefined, FALSE, "none", mapRemoved /\ Tracked # {})
            /\ UNCHANGED <<mapVars, geoJsonLayers, invVars, drawVars, miniVars, baseVars,
                           mapControls, view, clickHandlers, nextId>>

\* ---- clearMap()
clearMap ==
    /\ wrapper = "crimes"
    /\ IF map = 0
       THEN Skip("clearMap")
       ELSE /\ mapLayers' = mapLayers \ Tracked
            /\ markers' = <<>>
            /\ circles' = <<>>
            /\ polygons' = <<>>
            /\ polylines' = <<>>
            /\ geoJsonLayers' = <<>>
            /\ Out("clearMap", Undefined, FALSE, "none", mapRemoved /\ Tracked # {})
            /\ UNCHANGED <<mapVars, invVars, drawVars, miniVars, baseVars, mapControls,
                           view, clickHandlers, nextId>>

\* ---- setView(lat, lng, zoom)
setView ==
    /\ wrapper = "crimes"
    /\ \E c \in Coords, zoom \in Zooms :
        IF map = 0
        THEN Skip("setView")
        ELSE \E t \in DeadThrows :
             /\ view' = IF mapRemoved THEN view ELSE ViewOf(c, zoom)
             /\ Out("setView", Undefined, t, "none", mapRemoved)
             /\ UNCHANGED <<mapVars, regVars, invVars, drawVars, miniVars, baseVars,
                            mapLayers, mapControls, clickHandlers, nextId>>

\* ---- fitBounds(bounds)
\* !bounds || bounds.length !== 2 || !Array.isArray(bounds[0]) || ... (lines 435-437)
BadShape(b) ==
    \/ b.nul
    \/ Len(b.corners) # 2
    \/ ~b.corners[1].arr \/ ~b.corners[2].arr
    \/ Len(b.corners[1].els) # 2 \/ Len(b.corners[2].els) # 2
MinLat(b) == b.corners[1].els[1]
MinLng(b) == b.corners[1].els[2]
MaxLat(b) == b.corners[2].els[1]
MaxLng(b) == b.corners[2].els[2]
\* a same-point check written with the comparison negated
SamePointNegated(b) == ~(StrictEq(MinLat(b), MaxLat(b)) /\ StrictEq(MinLng(b), MaxLng(b)))
\* minLat === maxLat && minLng === maxLng (line 445)
SamePoint(b) == StrictEq(MinLat(b), MaxLat(b)) /\ StrictEq(MinLng(b), MaxLng(b))
\* isNaN(minLat) || isNaN(minLng) || isNaN(maxLat) || isNaN(maxLng) (line 452)
AnyNaN(b) == IsNaN(MinLat(b)) \/ IsNaN(MinLng(b)) \/ IsNaN(MaxLat(b)) \/ IsNaN(MaxLng(b))
SinglePointZoom == 10
FallbackZoom == 8


\* the part of fitBounds after the shape check, on a map that is there
FitView(b, fitFails) ==
    IF SamePoint(b) /\ AnyNaN(b)
    THEN \* map.setView(["a", "a"], 10): the widget throws Error('Invalid LatLng object')
         /\ view' = view
         /\ Call("fitBounds", b, Undefined, TRUE, "none", mapRemoved)
    ELSE IF SamePoint(b)
    THEN /\ view' = IF mapRemoved THEN view
                    ELSE ViewOf(<<MinLat(b), MinLng(b)>>, SinglePointZoom)
         /\ \E t \in DeadThrows : Call("fitBounds", b, Undefined, t, "none", mapRemoved)
    ELSE IF AnyNaN(b)
    THEN /\ view' = view
         /\ Call("fitBounds", b, Undefined, FALSE, "error", FALSE)
    ELSE IF ~fitFails /\ ~mapRemoved
    THEN /\ view' = FitOf(b)
         /\ Call("fitBounds", b, Undefined, FALSE, "none", FALSE)
    ELSE \* map.fitBounds threw: caught, logged, centre on the midpoint
         /\ view' = IF mapRemoved THEN view
                    ELSE ViewOf(<<Mid(MinLat(b), MaxLat(b)), Mid(MinLng(b), MaxLng(b))>>,
                                FallbackZoom)
         /\ \E t \in DeadThrows : Call("fitBounds", b, Undefined, t, "error", mapRemoved)

fitBounds ==
    /\ wrapper = "crimes"
    /\ \E b \in BoundsInputs, fitFails \in BOOLEAN :
        IF map = 0
        THEN Skip("fitBounds")
        ELSE /\ IF BadShape(b)
                THEN /\ view' = view
                     /\ Call("fitBounds", b, Undefined, FALSE, "error", FALSE)
                ELSE FitView(b, fitFails)
             /\ UNCHANGED <<mapVars, regVars, invVars, drawVars, miniVars, baseVars,
                            mapLayers, mapControls, clickHandlers, nextId>>

\* ---- setupMapClick(dotNetReference)
setupMapClick ==
    /\ wrapper = "crimes"
    /\ IF map = 0 \/ isDisposed
       THEN Skip("setupMapClick")
       ELSE /\ CanCreate(1)
            /\ clickHandlers' = clickHandlers + 1
            /\ Out("setupMapClick", Undefined, FALSE, "none", mapRemoved)
            /\ UNCHANGED <<mapVars, regVars, invVars, drawVars, miniVars, baseVars,
                           mapLayers, mapControls, view, nextId>>

\* ---- the user clicks the map: every 'click' listener calls
\* dotNetReference.invokeMethodAsync(<handler>, e.latlng.lat, e.latlng.lng)
mapClick ==
    /\ MapLive
    /\ Event("mapClick", clickHandlers)
    /\ UNCHANGED stateVars

\* ---- addMiniMap(miniMapLayerUrl, options)
addMiniMap ==
    /\ wrapper = "crimes"
    /\ IF map = 0
       THEN Skip("addMiniMap")
       ELSE IF "minimap" \notin plugins
       THEN /\ Out("addMiniMap", Undefined, FALSE, "error", FALSE)
            /\ UNCHANGED stateVars
       ELSE /\ CanCreate(1)
            /\ \E t \in DeadThrows :
                /\ nextId' = nextId + 1
                /\ IF t
                   THEN UNCHANGED <<miniMapControl, mapControls, miniMinimized>>
                   ELSE /\ miniMapControl' = nextId
                        /\ mapControls' = IF mapRemoved THEN mapControls
                                           ELSE mapControls \cup {Obj("minimap", nextId)}
                        /\ miniMinimized' = FALSE
                /\ Out("addMiniMap", Undefined, t, "none", mapRemoved)
            /\ UNCHANGED <<mapVars, regVars, invVars, drawVars, baseVars, mapLayers,
                           view, clickHandlers>>

\* ---- removeMiniMap()
removeMiniMap ==
    /\ wrapper = "crimes"
    /\ IF miniMapControl = 0
       THEN Skip("removeMiniMap")
       ELSE IF map = 0
       THEN Throw("removeMiniMap")
       ELSE /\ mapControls' = mapControls \ {Obj("minimap", miniMapControl)}
            /\ miniMapControl' = 0
            /\ Out("removeMiniMap", Undefined, FALSE, "none", mapRemoved)
            /\ UNCHANGED <<mapVars, regVars, invVars, drawVars, miniMinimized, baseVars,
                           mapLayers, view, clickHandlers, nextId>>

\* ---- toggleMiniMap()
toggleMiniMap ==
    /\ wrapper = "crimes"
    /\ IF miniMapControl = 0
       THEN Skip("toggleMiniMap")
       ELSE /\ miniMinimized' = ~miniMinimized
            /\ Out("toggleMiniMap", Undefined, FALSE, "none", FALSE)
            /\ UNCHANGED <<mapVars, regVars, invVars, drawVars, miniMapControl, baseVars,
                           widgetVars, nextId>>

\* a dispose() that leaves out `map = null` after map.remove()
disposeKeepsMap ==
    /\ wrapper = "crimes"
    /\ isDisposed' = TRUE
    /\ map' = map
    /\ mapRemoved' = (map # 0)
    /\ mapLayers' = {}
    /\ mapControls' = {}
    /\ createdHandlers' = 0
    /\ clickHandlers' = 0
    /\ view' = NoView
    /\ investigationMarkers' = [investigationMarkers EXCEPT !.on = FALSE]
    /\ directionArrows' = [directionArrows EXCEPT !.on = FALSE]
    /\ markers' = <<>>
    /\ circles' = <<>>
    /\ polygons' = <<>>
    /\ polylines' = <<>>
    /\ geoJsonLayers' = <<>>
    /\ drawnItems' = 0
    /\ drawControl' = 0
    /\ miniMapControl' = 0
    /\ Out("dispose", Undefined, FALSE,
           IF map # 0 /\ mapRemoved THEN "warn" ELSE "none", map # 0 /\ mapRemoved)
    /\ groupLayers' = Reachable(0)
    /\ UNCHANGED <<drawEnabled, miniMinimized, baseVars, nextId>>

\* ---- dispose()
dispose ==
    /\ wrapper = "crimes"
    /\ isDisposed' = TRUE
    \* if (map) { removeLayer / removeControl / map.remove(), each in try; map = null }
    /\ map' = 0
    /\ mapRemoved' = FALSE
    /\ mapLayers' = {}
    /\ mapControls' = {}
    /\ createdHandlers' = 0
    /\ clickHandlers' = 0
    /\ view' = NoView
    /\ investigationMarkers' = [investigationMarkers EXCEPT !.on = FALSE]
    /\ directionArrows' = [directionArrows EXCEPT !.on = FALSE]
    \* clear arrays
    /\ markers' = <<>>
    /\ circles' = <<>>
    /\ polygons' = <<>>
    /\ polylines' = <<>>
    /\ geoJsonLayers' = <<>>
    /\ drawnItems' = 0
    /\ drawControl' = 0
    /\ miniMapControl' = 0
    /\ Out("dispose", Undefined, FALSE,
           IF map # 0 /\ mapRemoved THEN "warn" ELSE "none", map # 0 /\ mapRemoved)
    /\ groupLayers' = Reachable(0)
    /\ UNCHANGED <<drawEnabled, miniMinimized, baseVars, nextId>>

\* ---- the drawing tools
DrawnGroup(g) == Obj("drawnItems", g)
DrawCtl(g) == Obj("draw", g)

\* initDrawTools(lineColor, fillColor, lineWeight), entered with the controls `ctls`
\* attached to the map
InitDraw(op, ctls) ==
    IF map = 0
    THEN /\ Out(op, Undefined, FALSE, "none", FALSE)
         /\ mapControls' = ctls
         /\ UNCHANGED <<mapVars, regVars, invVars, drawVars, miniVars, baseVars, mapLayers,
                        view, clickHandlers, nextId>>
    ELSE IF "draw" \notin plugins
    THEN \* typeof L.Control.Draw === 'undefined'
         /\ Out(op, Undefined, FALSE, "error", FALSE)
         /\ mapControls' = ctls
         /\ UNCHANGED <<mapVars, regVars, invVars, drawVars, miniVars, baseVars, mapLayers,
                        view, clickHandlers, nextId>>
    ELSE /\ CanCreate(1)
         /\ \E t \in DeadThrows :
             /\ nextId' = nextId + 1
             /\ drawnItems' = nextId
             /\ IF t
                THEN \* map.addLayer(drawnItems) threw
                     /\ mapControls' = ctls
                     /\ UNCHANGED <<drawControl, mapLayers, createdHandlers>>
                ELSE /\ drawControl' = nextId
                     /\ mapLayers' = IF mapRemoved THEN mapLayers
                                     ELSE mapLayers \cup {DrawnGroup(nextId)}
                     /\ mapControls' = IF mapRemoved THEN ctls
                                       ELSE ctls \cup {DrawCtl(nextId)}
                     /\ createdHandlers' = createdHandlers + 1
             /\ Out(op, Undefined, t, "none", mapRemoved)
         /\ UNCHANGED <<mapVars, regVars, invVars, drawEnabled, groupLayers, miniVars,
                        baseVars, view, clickHandlers>>

initDrawTools ==
    /\ wrapper = "crimes"
    /\ InitDraw("initDrawTools", mapControls)

\* ---- initDrawToolsAdvanced(options)
initDrawToolsAdvanced ==
    /\ wrapper = "crimes"
    /\ IF map = 0
       THEN Skip("initDrawToolsAdvanced")
       ELSE /\ CanCreate(1)
            /\ \E t \in DeadThrows :
                /\ nextId' = nextId + 1
                /\ drawnItems' = nextId
                /\ IF t
                   THEN \* map.addLayer(drawnItems) threw
                        /\ Out("initDrawToolsAdvanced", Undefined, TRUE, "none", TRUE)
                        /\ UNCHANGED <<drawControl, mapLayers, mapControls, createdHandlers>>
                   ELSE IF "draw" \notin plugins
                   THEN \* new L.Control.Draw(...): not a constructor
                        /\ mapLayers' = IF mapRemoved THEN mapLayers
                                        ELSE mapLayers \cup {DrawnGroup(nextId)}
                        /\ Out("initDrawToolsAdvanced", Undefined, TRUE, "none", mapRemoved)
                        /\ UNCHANGED <<drawControl, mapControls, createdHandlers>>
                   ELSE /\ drawControl' = nextId
                        /\ mapLayers' = IF mapRemoved THEN mapLayers
                                        ELSE mapLayers \cup {DrawnGroup(nextId)}
                        /\ mapControls' = IF mapRemoved THEN mapControls
                                          ELSE mapControls \cup {DrawCtl(nextId)}
                        /\ createdHandlers' = createdHandlers + 1
                        /\ Out("initDrawToolsAdvanced", Undefined, FALSE, "none", mapRemoved)
            /\ UNCHANGED <<mapVars, regVars, invVars, drawEnabled, groupLayers, miniVars,
                           baseVars, view, clickHandlers>>

\* ---- updateDrawToolsStyle(lineColor, fillColor, lineWeight, fillOpacity)
updateDrawToolsStyle ==
    /\ wrapper = "crimes"
    /\ IF drawControl # 0 /\ map = 0
       THEN Throw("updateDrawToolsStyle")
       ELSE InitDraw("updateDrawToolsStyle",
                     IF drawControl # 0 THEN mapControls \ {DrawCtl(drawControl)}
                     ELSE mapControls)

\* an enableDrawing() that takes the control off the map when it is on it
enableDrawingToggles ==
    /\ wrapper = "crimes"
    /\ IF drawControl = 0
       THEN Skip("enableDrawing")
       ELSE IF map = 0
       THEN Throw("enableDrawing")
       ELSE \E t \in DeadThrows :
            /\ mapControls' = IF mapRemoved THEN mapControls
                              ELSE IF DrawCtl(drawControl) \in mapControls
                              THEN mapControls \ {DrawCtl(drawControl)}
                              ELSE mapControls \cup {DrawCtl(drawControl)}
            /\ Out("enableDrawing", Undefined, t, "none", mapRemoved)
            /\ UNCHANGED <<mapVars, regVars, invVars, drawVars, miniVars, baseVars,
                           mapLayers, view, clickHandlers, nextId>>

\* ---- enableDrawing()
enableDrawing ==
    /\ wrapper = "crimes"
    /\ IF drawControl = 0
       THEN Skip("enableDrawing")
       ELSE IF map = 0
       THEN Throw("enableDrawing")
       ELSE \E t \in DeadThrows :
            \* Control.addTo removes the control from where it is, then adds it
            /\ mapControls' = IF mapRemoved THEN mapControls
                              ELSE mapControls \cup {DrawCtl(drawControl)}
            /\ Out("enableDrawing", Undefined, t, "none", mapRemoved)
            /\ UNCHANGED <<mapVars, regVars, invVars, drawVars, miniVars, baseVars,
                           mapLayers, view, clickHandlers, nextId>>

\* a disableDrawing() that also empties the drawn-items group
disableDrawingClears ==
    /\ wrapper = "crimes"
    /\ IF drawControl = 0
       THEN Skip("disableDrawing")
       ELSE IF map = 0
       THEN Throw("disableDrawing")
       ELSE /\ mapControls' = mapControls \ {DrawCtl(drawControl)}
            /\ groupLayers' = {p \in groupLayers : p[1] # drawnItems}
            /\ Out("disableDrawing", Undefined, FALSE, "none", mapRemoved)
            /\ UNCHANGED <<mapVars, regVars, invVars, drawnItems, drawControl, drawEnabled,
                           createdHandlers, miniVars, baseVars, mapLayers, view,
                           clickHandlers, nextId>>

\* ---- disableDrawing()
disableDrawing ==
    /\ wrapper = "crimes"
    /\ IF drawControl = 0
       THEN Skip("disableDrawing")
       ELSE IF map = 0
       THEN Throw("disableDrawing")
       ELSE /\ mapControls' = mapControls \ {DrawCtl(drawControl)}
            /\ Out("disableDrawing", Undefined, FALSE, "none", mapRemoved)
            /\ UNCHANGED <<mapVars, regVars, invVars, drawVars, miniVars, baseVars,
                           mapLayers, view, clickHandlers, nextId>>

\* a clearAllDrawn() that also takes the group off the map
clearAllDrawnDetaches ==
    /\ wrapper = "crimes"
    /\ IF drawnItems = 0
       THEN Skip("clearAllDrawn")
       ELSE /\ groupLayers' = {p \in groupLayers : p[1] # drawnItems}
            /\ mapLayers' = mapLayers \ {DrawnGroup(drawnItems)}
            /\ Out("clearAllDrawn", Undefined, FALSE, "none", FALSE)
            /\ UNCHANGED <<mapVars, regVars, invVars, drawnItems, drawControl, drawEnabled,
                           createdHandlers, miniVars, baseVars, mapControls, view,
                           clickHandlers, nextId>>

\* ---- clearAllDrawn()
clearAllDrawn ==
    /\ wrapper = "crimes"
    /\ IF drawnItems = 0
       THEN Skip("clearAllDrawn")
       ELSE /\ groupLayers' = {p \in groupLayers : p[1] # drawnItems}
            /\ Out("clearAllDrawn", Undefined, FALSE, "none", FALSE)
            /\ UNCHANGED <<mapVars, regVars, invVars, drawnItems, drawControl, drawEnabled,
                           createdHandlers, miniVars, baseVars, widgetVars, nextId>>

\* ---- GeoJSON values
\* the object drawnItems.toGeoJSON() returns for a group of n layers
FeatureCollection(n) == Obj("FeatureCollection", n)
\* JSON.stringify(x): a string, the JSON text of the feature collection x
Stringify(x) == Obj("json", x.id)
\* values the host passes to addDrawnFromGeoJson: null, a GeoJSON object, or a
\* string such as getDrawnGeoJson returns
GeoJsonInputs ==
    {Null} \cup {FeatureCollection(n) : n \in 0..MaxObjects}
           \cup {Stringify(FeatureCollection(n)) : n \in 0..MaxObjects}
\* L.geoJSON(x) reads x.features and x.type: of a string both are undefined, and
\* Leaflet throws Error('Invalid GeoJSON object.')
GeoJsonThrows(x) == x.kind = "json"
\* the number of layers L.geoJSON(x) builds
GeoJsonLayers(x) == IF x.kind = "FeatureCollection" THEN x.id ELSE 0
\* the shapes with the n identities from nextId on, as members of group g
Imported(g, n) == {<<g, nextId + k>> : k \in 0..(n - 1)}

\* ---- getDrawnGeoJson()
getDrawnGeoJson ==
    /\ wrapper = "crimes"
    /\ Out("getDrawnGeoJson",
           IF drawnItems = 0 THEN Null
           ELSE Stringify(FeatureCollection(Cardinality(Reachable(drawnItems)))),
           FALSE, "none", FALSE)
    /\ UNCHANGED stateVars

\* ---- addDrawnFromGeoJson(geoJson)
addDrawnFromGeoJson ==
    /\ wrapper = "crimes"
    /\ \E geoJson \in GeoJsonInputs :
        IF drawnItems = 0
        THEN Call("addDrawnFromGeoJson", geoJson, Undefined, FALSE, "none", FALSE)
             /\ UNCHANGED stateVars
        ELSE IF GeoJsonThrows(geoJson)
        THEN Call("addDrawnFromGeoJson", geoJson, Undefined, TRUE, "none", FALSE)
             /\ UNCHANGED stateVars
        ELSE /\ CanCreate(GeoJsonLayers(geoJson))
             /\ groupLayers' = groupLayers \cup Imported(drawnItems, GeoJsonLayers(geoJson))
             /\ nextId' = nextId + GeoJsonLayers(geoJson)
             /\ Call("addDrawnFromGeoJson", geoJson, Undefined, FALSE, "none", FALSE)
             /\ UNCHANGED <<mapVars, regVars, invVars, drawnItems, drawControl, drawEnabled,
                            createdHandlers, miniVars, baseVars, widgetVars>>

\* ---- the user finishes a shape with a drawing control attached to the map:
\* Leaflet.draw fires L.Draw.Event.CREATED on the map, and every listener runs
\*     function (e) { drawnItems.addLayer(e.layer); }
\* on the module variable drawnItems (a group holds a layer once)
drawCreated ==
    /\ MapLive
    /\ \E c \in mapControls : c.kind = "draw"
    /\ CanCreate(1)
    /\ Event("drawCreated", createdHandlers)
    /\ IF createdHandlers > 0 /\ drawnItems # 0
       THEN /\ groupLayers' = groupLayers \cup {<<drawnItems, nextId>>}
            /\ nextId' = nextId + 1
       ELSE UNCHANGED <<groupLayers, nextId>>
    /\ UNCHANGED <<mapVars, regVars, invVars, drawnItems, drawControl,
                   drawEnabled, createdHandlers, miniVars, baseVars, widgetVars>>

\* ---- the investigation overlays
\* group.addLayer(x): x becomes a member
Add(group, kinds) == [group EXCEPT !.items = group.items \o kinds]
\* group.addTo(map), on a map that is there and was not removed
On(group) == [group EXCEPT !.on = TRUE]

\* addInvestigationLocation(lat, lng, title, description, type, options)
addInvestigationLocation ==
    /\ wrapper = "crimes"
    /\ CanCreate(1)
    /\ \E t \in DeadThrows :
        /\ investigationMarkers' =
              IF MapLive THEN On(Add(investigationMarkers, <<"location">>))
              ELSE Add(investigationMarkers, <<"location">>)
        /\ IF map = 0 \/ t
           THEN \* investigationMarkers.addTo(map) threw
                Out("addInvestigationLocation", Undefined, TRUE, "none", map # 0)
           ELSE Out("addInvestigationLocation", Obj("location", 0), FALSE, "none",
                    mapRemoved)
    /\ UNCHANGED <<mapVars, regVars, directionArrows, drawVars, miniVars, baseVars,
                   widgetVars, nextId>>

\* the overlays one addDirectionArrow call adds to directionArrows
ArrowParts(labelled) ==
    IF labelled THEN <<"arrow", "arrowhead", "label">> ELSE <<"arrow", "arrowhead">>

\* addDirectionArrow(fromLat, fromLng, toLat, toLng, label, color, options)
addDirectionArrow ==
    /\ wrapper = "crimes"
    /\ \E labelled \in BOOLEAN, t \in DeadThrows :
        /\ CanCreate(Len(ArrowParts(labelled)))
        /\ directionArrows' =
              IF MapLive THEN On(Add(directionArrows, ArrowParts(labelled)))
              ELSE Add(directionArrows, ArrowParts(labelled))
        /\ IF map = 0 \/ t
           THEN \* directionArrows.addTo(map) threw
                Out("addDirectionArrow", Undefined, TRUE, "none", map # 0)
           ELSE Out("addDirectionArrow", Obj("arrow", 0), FALSE, "none", mapRemoved)
    /\ UNCHANGED <<mapVars, regVars, investigationMarkers, drawVars, miniVars, baseVars,
                   widgetVars, nextId>>

\* a path whose every segment carries the label
RECURSIVE SegmentsAllLabelled(_, _, _)
SegmentsAllLabelled(i, n, labelled) ==
    IF i >= n THEN <<>>
    ELSE ArrowParts(labelled) \o SegmentsAllLabelled(i + 1, n, labelled)

\* the most overlays the direction-arrows group holds when a path is added
MaxArrows == 7

\* the arguments of addInvestigationPath: a list of n points, and a label that
\* is empty or not
PathArgs(n, labelled) == Obj(IF labelled THEN "points, label" ELSE "points, ''", n)

\* the overlays addInvestigationPath adds for the segments i .. n-1 of n points,
\* the label going to segment 1 (i === 0 ? label : '')
RECURSIVE Segments(_, _, _)
Segments(i, n, labelled) ==
    IF i >= n THEN <<>>
    ELSE ArrowParts(labelled /\ i = 1) \o Segments(i + 1, n, labelled)

\* addInvestigationPath(points, label, color, options), points.length = n
addInvestigationPath ==
    /\ wrapper = "crimes"
    /\ \E n \in 0..MaxObjects, labelled \in BOOLEAN, t \in DeadThrows :
        LET \* where the call stops: on a map that is absent (or rejects the call) the
            \* first addDirectionArrow throws at directionArrows.addTo(map), and with
            \* fewer than two points the path's own addTo(map) does
            fails == map = 0 \/ t
            parts == IF fails
                     THEN <<"path">> \o Segments(1, IF n >= 2 THEN 2 ELSE n, labelled)
                     ELSE <<"path">> \o Segments(1, n, labelled)
        IN  /\ Len(directionArrows.items) + Len(parts) <= MaxArrows
            /\ directionArrows' = IF MapLive THEN On(Add(directionArrows, parts))
                                  ELSE Add(directionArrows, parts)
            /\ IF fails
               THEN Call("addInvestigationPath", PathArgs(n, labelled), Undefined, TRUE,
                         "none", map # 0)
               ELSE Call("addInvestigationPath", PathArgs(n, labelled), Obj("path", 0),
                         FALSE, "none", mapRemoved)
    /\ UNCHANGED <<mapVars, regVars, investigationMarkers, drawVars, miniVars, baseVars,
                   widgetVars, nextId>>

\* addInvestigationZone(lat, lng, radius, label, color, options)
addInvestigationZone ==
    /\ wrapper = "crimes"
    /\ IF map = 0
       THEN \* L.circle(...).addTo(map) threw
            Throw("addInvestigationZone")
       ELSE \E t \in DeadThrows :
            IF t
            THEN /\ Out("addInvestigationZone", Undefined, TRUE, "none", TRUE)
                 /\ UNCHANGED stateVars
            ELSE /\ CanCreate(2)
                 /\ mapLayers' = IF mapRemoved THEN mapLayers
                                 ELSE mapLayers \cup {Obj("zone", nextId)}
                 /\ nextId' = nextId + 1
                 /\ investigationMarkers' =
                       IF MapLive THEN On(Add(investigationMarkers, <<"zoneLabel">>))
                       ELSE Add(investigationMarkers, <<"zoneLabel">>)
                 /\ Out("addInvestigationZone", Obj("zone", nextId), FALSE, "none",
                        mapRemoved)
                 /\ UNCHANGED <<mapVars, regVars, directionArrows, drawVars, miniVars,
                                baseVars, mapControls, view, clickHandlers>>

\* clearInvestigationData()
clearInvestigationData ==
    /\ wrapper = "crimes"
    /\ IF map = 0
       THEN \* map.removeLayer(investigationMarkers) threw
            Throw("clearInvestigationData")
       ELSE /\ investigationMarkers' = EmptyGroup
            /\ directionArrows' = EmptyGroup
            /\ Out("clearInvestigationData", Undefined, FALSE, "none", mapRemoved)
            /\ UNCHANGED <<mapVars, regVars, drawVars, miniVars, baseVars, widgetVars,
                           nextId>>

\* getInvestigationGeoJson()
getInvestigationGeoJson ==
    /\ wrapper = "crimes"
    /\ Out("getInvestigationGeoJson",
           Obj("geojson", Len(investigationMarkers.items) + Len(directionArrows.items)),
           FALSE, "none", FALSE)
    /\ UNCHANGED stateVars

\* loadInvestigationGeoJson(geoJsonData), geoJsonData an object that has or lacks
\* .markers and .arrows
loadInvestigationGeoJson ==
    /\ wrapper = "crimes"
    /\ \E hasMarkers \in BOOLEAN, hasArrows \in BOOLEAN, t \in DeadThrows :
        LET m == IF hasMarkers THEN <<"geojson">> ELSE <<>>
            a == IF hasArrows THEN <<"geojson">> ELSE <<>>
            fails == map = 0 \/ t
        IN  /\ CanCreate(Len(m) + Len(a))
            /\ investigationMarkers' = IF MapLive THEN On(Add(investigationMarkers, m))
                                       ELSE Add(investigationMarkers, m)
            /\ directionArrows' = IF MapLive THEN On(Add(directionArrows, a))
                                  ELSE Add(directionArrows, a)
            /\ IF fails
               THEN \* investigationMarkers.addTo(map) threw
                    Out("loadInvestigationGeoJson", Undefined, TRUE, "none", map # 0)
               ELSE Out("loadInvestigationGeoJson", Undefined, FALSE, "none", mapRemoved)
    /\ UNCHANGED <<mapVars, regVars, drawVars, miniVars, baseVars, widgetVars, nextId>>

\* ---- addTimelineAnimation(points, interval), for n points.  Each point goes
\* through addInvestigationLocation, which throws at the first one when there is
\* no map; the controller returned closes over its own markers and index, so
\* the one the host held before runs on, apart, and is followed no further.
Locations(n) == [i \in 1..n |-> "location"]
addTimelineAnimation ==
    /\ wrapper = "crimes"
    /\ \E n \in 0..MaxObjects, t \in DeadThrows :
        IF n > 0 /\ (map = 0 \/ t)
        THEN /\ CanCreate(1)
             /\ investigationMarkers' = Add(investigationMarkers, Locations(1))
             /\ Seen("addTimelineAnimation", Undefined, Undefined, TRUE, "none", map # 0)
             /\ UNCHANGED timeVars
        ELSE /\ CanCreate(n)
             /\ investigationMarkers' =
                   IF n = 0 THEN investigationMarkers
                   ELSE IF MapLive THEN On(Add(investigationMarkers, Locations(n)))
                   ELSE Add(investigationMarkers, Locations(n))
             /\ timeline' = NewTimeline(n)
             /\ timelineCalls' = NoCalls
             /\ Seen("addTimelineAnimation", Undefined, Obj("timeline", n), FALSE, "none",
                     n > 0 /\ mapRemoved)
    /\ UNCHANGED <<mapVars, regVars, directionArrows, drawVars, miniVars, baseVars,
                   widgetVars, nextId>>

\* an animateNext that leaves the marker shown before at opacity 1
AnimateNextNoDim(tl) ==
    IF tl.currentIndex < tl.n
    THEN [tl EXCEPT !.lit = tl.lit \cup {tl.currentIndex + 1},
                    !.currentIndex = tl.currentIndex + 1,
                    !.pending = tl.pending + 1]
    ELSE tl
\* function animateNext(), run on the closure tl: the marker shown before goes
\* back to opacity 0.3; while a marker is left, it is set to opacity 1, its popup
\* is opened, currentIndex moves on and the next run is scheduled
AnimateNext(tl) ==
    LET dimmed == IF tl.currentIndex > 0 THEN tl.lit \ {tl.currentIndex} ELSE tl.lit
    IN  IF tl.currentIndex < tl.n
        THEN [tl EXCEPT !.lit = dimmed \cup {tl.currentIndex + 1},
                        !.currentIndex = tl.currentIndex + 1,
                        !.pending = tl.pending + 1]
        ELSE [tl EXCEPT !.lit = dimmed]
\* the marker that run of animateNext highlights and opens the popup of, if any
Highlighted(tl) ==
    IF tl.currentIndex < tl.n THEN Obj("location", tl.currentIndex + 1) ELSE Undefined

\* ---- controller.start(): () => animateNext()
start ==
    /\ timeline.made
    /\ timeline.pending < MaxObjects
    /\ timeline' = AnimateNext(timeline)
    /\ timelineCalls' = [started |-> TRUE, stopped |-> FALSE, reset |-> FALSE,
                         calls |-> OneMore(timelineCalls.calls)]
    /\ Seen("start", Undefined, Highlighted(timeline), FALSE, "none", FALSE)
    /\ UNCHANGED stateVars

\* ---- controller.stop(): () => currentIndex = timelineMarkers.length
stop ==
    /\ timeline.made
    /\ timeline' = [timeline EXCEPT !.currentIndex = timeline.n]
    /\ timelineCalls' = [timelineCalls EXCEPT !.stopped = TRUE, !.reset = FALSE,
                                              !.calls = OneMore(@)]
    /\ Seen("stop", Undefined, Undefined, FALSE, "none", FALSE)
    /\ UNCHANGED stateVars

\* ---- controller.reset(): currentIndex = 0; every marker back to opacity 0.3
reset ==
    /\ timeline.made
    /\ timeline' = [timeline EXCEPT !.currentIndex = 0, !.lit = {}]
    /\ timelineCalls' = [timelineCalls EXCEPT !.reset = timelineCalls.stopped,
                                              !.calls = OneMore(@)]
    /\ Seen("reset", Undefined, Undefined, FALSE, "none", FALSE)
    /\ UNCHANGED stateVars

\* ---- a timer set by setTimeout(animateNext, interval) fires
animateNext ==
    /\ timeline.made
    /\ timeline.pending > 0
    /\ LET tl == [timeline EXCEPT !.pending = timeline.pending - 1]
       IN  /\ tl.currentIndex < tl.n => tl.pending < MaxObjects
           /\ timeline' = AnimateNext(tl)
           /\ Seen("animateNext", Undefined, Highlighted(tl), FALSE, "none", FALSE)
    /\ UNCHANGED <<stateVars, timelineCalls>>

\* ---- calculateBearing(fromLat, fromLng, toLat, toLng)
\* Angles are whole degrees; a sine or cosine is its value times 1000, rounded.
\* 1000 * Math.sin(d * Math.PI / 180) for d = 0 .. 90
SinTable ==
    <<0, 17, 35, 52, 70, 87, 105, 122, 139, 156, 174, 191, 208, 225, 242, 259, 276,
      292, 309, 326, 342, 358, 375, 391, 407, 423, 438, 454, 469, 485, 500, 515, 530,
      545, 559, 574, 588, 602, 616, 629, 643, 656, 669, 682, 695, 707, 719, 731, 743,
      755, 766, 777, 788, 799, 809, 819, 829, 839, 848, 857, 866, 875, 883, 891, 899,
      906, 914, 921, 927, 934, 940, 946, 951, 956, 961, 966, 970, 974, 978, 982, 985,
      988, 990, 993, 995, 996, 998, 999, 999, 1000, 1000>>
\* Math.sin of d degrees
Sin(d) ==
    LET m == d % 360
    IN  IF m <= 90 THEN SinTable[m + 1]
        ELSE IF m <= 180 THEN SinTable[180 - m + 1]
        ELSE IF m <= 270 THEN 0 - SinTable[m - 180 + 1]
        ELSE 0 - SinTable[360 - m + 1]
\* Math.cos of d degrees
Cos(d) == Sin(d + 90)
Abs(a) == IF a >= 0 THEN a ELSE 0 - a
\* Math.atan2(y, x) in degrees, -180 < result <= 180: the angle of the first
\* quadrant nearest to the direction (|x|, |y|), which is where the cross product
\* |y| cos d - |x| sin d changes sign, carried to the quadrant of (x, y);
\* Math.atan2(0, 0) is 0
Atan2(y, x) ==
    IF x = 0 /\ y = 0 THEN 0
    ELSE LET ax == Abs(x) \div 2000
             ay == Abs(y) \div 2000
             cross(d) == ay * Cos(d) - ax * Sin(d)
             up == CHOOSE d \in 0..90 : cross(d) <= 0 /\ (d = 0 \/ cross(d - 1) > 0)
             a == IF up > 0 /\ cross(up - 1) < 0 - cross(up) THEN up - 1 ELSE up
         IN  IF x >= 0 /\ y >= 0 THEN a
             ELSE IF x < 0 /\ y >= 0 THEN 180 - a
             ELSE IF x < 0 THEN a - 180
             ELSE 0 - a
\* a % n of JavaScript: the remainder has the sign of a
JsRem(a, n) == IF a >= 0 THEN a % n ELSE 0 - ((0 - a) % n)

\* a bearing returned without the normalisation into one turn
BearingRaw(fromLat, fromLng, toLat, toLng) ==
    LET y == Sin(toLng - fromLng) * Cos(toLat) * 1000
        x == Cos(fromLat) * Sin(toLat) * 1000
                - Sin(fromLat) * Cos(toLat) * Cos(toLng - fromLng)
    IN  Atan2(y, x)
\* (theta * 180 / Math.PI + 360) % 360
Bearing(fromLat, fromLng, toLat, toLng) ==
    LET y == Sin(toLng - fromLng) * Cos(toLat) * 1000
        x == Cos(fromLat) * Sin(toLat) * 1000
                - Sin(fromLat) * Cos(toLat) * Cos(toLng - fromLng)
    IN  JsRem(Atan2(y, x) + 360, 360)

\* the geographic points the bearing is taken between: <<lat, lng>> in degrees
Lats == {-90, -45, 0, 30}
Lngs == {-180, -90, 0, 60}
Points == Lats \X Lngs

\* one call of calculateBearing, as addDirectionArrow makes it
calculateBearing ==
    /\ wrapper = "crimes"
    /\ \E from \in Points, to \in Points :
          Call("calculateBearing", [from |-> from, to |-> to],
               Num(Bearing(from[1], from[2], to[1], to[2])), FALSE, "none", FALSE)
    /\ UNCHANGED stateVars

\* ========================================================== leafletWrapper.js
\* ---- createMap(elementId, lat, lng, zoom)
\* L.map(elementId) throws when the element is not in the page or already holds a map
\* (`fresh`: the element holds none); the map created before stays as it is, unreachable
W_createMap ==
    /\ wrapper = "wrapper"
    /\ \E elementId \in ElementIds, fresh \in BOOLEAN, c \in Coords, zoom \in Zooms :
        IF elementId \notin DomElements \/ (map # 0 /\ ~fresh)
        THEN Throw("createMap")
        ELSE /\ map' = 1
             /\ mapLayers' = {OsmTiles}
             /\ baseLayers' = {"osm", "satellite"}
             /\ mapControls' = {LayersControl}
             /\ createdHandlers' = 0
             /\ clickHandlers' = 0
             /\ view' = ViewOf(c, zoom)
             /\ groupLayers' = Reachable(drawnItems)
             /\ Out("createMap", TheMap, FALSE, "none", FALSE)
             /\ UNCHANGED <<mapRemoved, isDisposed, regVars, invVars, drawnItems,
                            drawControl, drawEnabled, miniVars, currentBaseLayer, nextId>>

\* ---- setMapType(mapType)
TileOf(key) == IF key = "osm" THEN OsmTiles ELSE SatelliteTiles
W_setMapType ==
    /\ wrapper = "wrapper"
    /\ \E mapType \in MapTypes :
        LET removed == IF currentBaseLayer \in baseLayers
                       THEN mapLayers \ {TileOf(currentBaseLayer)} ELSE mapLayers
        IN  /\ mapLayers' = IF mapType \in baseLayers
                            THEN removed \cup {TileOf(mapType)} ELSE removed
            /\ currentBaseLayer' = IF mapType \in baseLayers THEN mapType
                                   ELSE currentBaseLayer
            /\ Out("setMapType", Undefined, FALSE, "none", FALSE)
            /\ UNCHANGED <<mapVars, regVars, invVars, drawVars, miniVars, baseLayers,
                           mapControls, view, clickHandlers, nextId>>

\* ---- the add operations: return L.<kind>(...).addTo(map)
FreshOverlay(kind) ==
    CHOOSE n \in 1..(MaxObjects + 1) :
        /\ Obj(kind, n) \notin mapLayers
        /\ \A m \in 1..(n - 1) : Obj(kind, m) \in mapLayers

W_AddOverlay(op, kind) ==
    /\ wrapper = "wrapper"
    /\ IF map = 0
       THEN Throw(op)
       ELSE /\ CanCreate(1)
            /\ mapLayers' = mapLayers \cup {Obj(kind, FreshOverlay(kind))}
            /\ Out(op, Obj(kind, FreshOverlay(kind)), FALSE, "none", FALSE)
            /\ UNCHANGED <<mapVars, regVars, invVars, drawVars, miniVars, baseVars,
                           mapControls, view, clickHandlers, nextId>>

W_addMarker == W_AddOverlay("addMarker", "marker")
W_addCircle == W_AddOverlay("addCircle", "circle")
W_addPolygon == W_AddOverlay("addPolygon", "polygon")
W_addPolyline == W_AddOverlay("addPolyline", "polyline")
W_addStructure == W_AddOverlay("addStructure", "structure")
W_addRectangleStructure == W_AddOverlay("addRectangleStructure", "rectangle")
W_addGeoJson == W_AddOverlay("addGeoJson", "geojson")
W_addGeoJsonWithPopup == W_AddOverlay("addGeoJsonWithPopup", "geojson")

\* ---- removeLayer(layer), layer a handle an add operation returned: one that is
\* attached, or one that was removed before (Obj("marker", 0)).  The attached
\* overlays of one kind differ in nothing the adapter reads, so removing any of them
\* is shown as removing the one numbered last.
W_removeLayer ==
    /\ wrapper = "wrapper"
    /\ IF map = 0
       THEN Throw("removeLayer")
       ELSE \E layer \in {o \in Overlays : Obj(o.kind, o.id + 1) \notin mapLayers}
                            \cup {Obj("marker", 0)} :
            /\ mapLayers' = mapLayers \ {layer}
            /\ Out("removeLayer", Undefined, FALSE, "none", FALSE)
            /\ UNCHANGED <<mapVars, regVars, invVars, drawVars, miniVars, baseVars,
                           mapControls, view, clickHandlers, nextId>>

\* ---- clearMap()
\* map.eachLayer(layer => { if (!layer._url && !baseLayers.osm && !baseLayers.satellite)
\*                              map.removeLayer(layer); })
W_Cleared(layer) ==
    layer.kind # "tile" /\ "osm" \notin baseLayers /\ "satellite" \notin baseLayers
W_clearMap ==
    /\ wrapper = "wrapper"
    /\ IF map = 0
       THEN Throw("clearMap")
       ELSE /\ mapLayers' = {layer \in mapLayers : ~W_Cleared(layer)}
            /\ Out("clearMap", Undefined, FALSE, "none", FALSE)
            /\ UNCHANGED <<mapVars, regVars, invVars, drawVars, miniVars, baseVars,
                           mapControls, view, clickHandlers, nextId>>

\* ---- initDrawTools(lineColor, fillColor, lineWeight), and initDrawToolsAdvanced
\* (options), which takes the same steps
W_InitDraw(op) ==
    /\ wrapper = "wrapper"
    /\ IF map = 0
       THEN \* map.removeLayer(drawnItems) threw
            Throw(op)
       ELSE /\ CanCreate(1)
            /\ nextId' = nextId + 1
            /\ drawnItems' = nextId
            /\ mapLayers' = (mapLayers \ {DrawnGroup(drawnItems)}) \cup {DrawnGroup(nextId)}
            /\ IF "draw" \notin plugins
               THEN \* new L.Control.Draw(...): not a constructor
                    /\ mapControls' = mapControls \ {DrawCtl(drawControl)}
                    /\ Out(op, Undefined, TRUE, "none", FALSE)
                    /\ UNCHANGED <<drawControl, drawEnabled, createdHandlers>>
               ELSE /\ mapControls' = (mapControls \ {DrawCtl(drawControl)})
                                         \cup {DrawCtl(nextId)}
                    /\ drawControl' = nextId
                    /\ drawEnabled' = TRUE
                    \* map.off(L.Draw.Event.CREATED); map.on(L.Draw.Event.CREATED, ...)
                    /\ createdHandlers' = 1
                    /\ Out(op, Undefined, FALSE, "none", FALSE)
            /\ UNCHANGED <<mapVars, regVars, invVars, groupLayers, miniVars, baseVars,
                           view, clickHandlers>>

W_initDrawTools == W_InitDraw("initDrawTools")
W_initDrawToolsAdvanced == W_InitDraw("initDrawToolsAdvanced")
\* ---- updateDrawToolsStyle(...): initDrawTools(lineColor, fillColor, lineWeight)
W_updateDrawToolsStyle == W_InitDraw("updateDrawToolsStyle")

\* ---- enableDrawing()
W_enableDrawing ==
    /\ wrapper = "wrapper"
    /\ IF drawControl = 0 \/ drawEnabled
       THEN Skip("enableDrawing")
       ELSE /\ mapControls' = mapControls \cup {DrawCtl(drawControl)}
            /\ drawEnabled' = TRUE
            /\ Out("enableDrawing", Undefined, FALSE, "none", FALSE)
            /\ UNCHANGED <<mapVars, regVars, invVars, drawnItems, drawControl, groupLayers,
                           createdHandlers, miniVars, baseVars, mapLayers, view,
                           clickHandlers, nextId>>

\* ---- disableDrawing()
W_disableDrawing ==
    /\ wrapper = "wrapper"
    /\ IF drawControl = 0 \/ ~drawEnabled
       THEN Skip("disableDrawing")
       ELSE /\ mapControls' = mapControls \ {DrawCtl(drawControl)}
            /\ drawEnabled' = FALSE
            /\ Out("disableDrawing", Undefined, FALSE, "none", FALSE)
            /\ UNCHANGED <<mapVars, regVars, invVars, drawnItems, drawControl, groupLayers,
                           createdHandlers, miniVars, baseVars, mapLayers, view,
                           clickHandlers, nextId>>

\* ---- clearAllDrawn()
W_clearAllDrawn ==
    /\ wrapper = "wrapper"
    /\ groupLayers' = {p \in groupLayers : p[1] # drawnItems}
    /\ Out("clearAllDrawn", Undefined, FALSE, "none", FALSE)
    /\ UNCHANGED <<mapVars, regVars, invVars, drawnItems, drawControl, drawEnabled,
                   createdHandlers, miniVars, baseVars, widgetVars, nextId>>

\* ---- getDrawnGeoJson()
W_getDrawnGeoJson ==
    /\ wrapper = "wrapper"
    /\ Out("getDrawnGeoJson",
           Stringify(FeatureCollection(Cardinality(Reachable(drawnItems)))),
           FALSE, "none", FALSE)
    /\ UNCHANGED stateVars

\* ---- addDrawnFromGeoJson(geoJson)
W_addDrawnFromGeoJson ==
    /\ wrapper = "wrapper"
    /\ \E geoJson \in GeoJsonInputs :
        IF GeoJsonThrows(geoJson)
        THEN Call("addDrawnFromGeoJson", geoJson, Undefined, TRUE, "none", FALSE)
             /\ UNCHANGED stateVars
        ELSE /\ CanCreate(GeoJsonLayers(geoJson))
             /\ groupLayers' = groupLayers \cup Imported(drawnItems, GeoJsonLayers(geoJson))
             /\ nextId' = nextId + GeoJsonLayers(geoJson)
             /\ Call("addDrawnFromGeoJson", geoJson, Undefined, FALSE, "none", FALSE)
             /\ UNCHANGED <<mapVars, regVars, invVars, drawnItems, drawControl, drawEnabled,
                            createdHandlers, miniVars, baseVars, widgetVars>>

\* ---- addMiniMap(miniMapLayerUrl, options)
W_addMiniMap ==
    /\ wrapper = "wrapper"
    /\ IF map = 0 \/ "minimap" \notin plugins
       THEN \* new L.Control.MiniMap(...) is not a constructor, or addTo(undefined)
            Throw("addMiniMap")
       ELSE /\ CanCreate(1)
            /\ nextId' = nextId + 1
            /\ miniMapControl' = nextId
            /\ miniMinimized' = FALSE
            /\ mapControls' = (mapControls \ {Obj("minimap", miniMapControl)})
                                 \cup {Obj("minimap", nextId)}
            /\ Out("addMiniMap", Obj("minimap", nextId), FALSE, "none", FALSE)
            /\ UNCHANGED <<mapVars, regVars, invVars, drawVars, baseVars, mapLayers, view,
                           clickHandlers>>

\* ---- removeMiniMap()
W_removeMiniMap ==
    /\ wrapper = "wrapper"
    /\ IF miniMapControl = 0
       THEN Skip("removeMiniMap")
       ELSE /\ mapControls' = mapControls \ {Obj("minimap", miniMapControl)}
            /\ miniMapControl' = 0
            /\ Out("removeMiniMap", Undefined, FALSE, "none", FALSE)
            /\ UNCHANGED <<mapVars, regVars, invVars, drawVars, miniMinimized, baseVars,
                           mapLayers, view, clickHandlers, nextId>>

\* ---- toggleMiniMap()
W_toggleMiniMap ==
    /\ wrapper = "wrapper"
    /\ IF miniMapControl = 0
       THEN Skip("toggleMiniMap")
       ELSE /\ miniMinimized' = ~miniMinimized
            /\ Out("toggleMiniMap", Undefined, FALSE, "none", FALSE)
            /\ UNCHANGED <<mapVars, regVars, invVars, drawVars, miniMapControl, baseVars,
                           widgetVars, nextId>>

\* ---- setupMapClick(dotNetReference)
W_setupMapClick ==
    /\ wrapper = "wrapper"
    /\ IF map = 0
       THEN Throw("setupMapClick")
       ELSE /\ CanCreate(1)
            /\ clickHandlers' = clickHandlers + 1
            /\ Out("setupMapClick", Undefined, FALSE, "none", FALSE)
            /\ UNCHANGED <<mapVars, regVars, invVars, drawVars, miniVars, baseVars,
                           mapLayers, mapControls, view, nextId>>

\* ---- setView(lat, lng, zoom)
W_setView ==
    /\ wrapper = "wrapper"
    /\ \E c \in Coords, zoom \in Zooms :
        IF map = 0
        THEN Skip("setView")
        ELSE /\ view' = ViewOf(c, zoom)
             /\ Out("setView", Undefined, FALSE, "none", FALSE)
             /\ UNCHANGED <<mapVars, regVars, invVars, drawVars, miniVars, baseVars,
                            mapLayers, mapControls, clickHandlers, nextId>>

\* ---- fitBounds(bounds): if (map) map.fitBounds(bounds).  The widget is handed
\* the value as it came.  It throws Error('Bounds are not valid.') on null and
\* Error('Invalid LatLng object') on a coordinate that is not a number; of a list
\* of another shape it takes the corners it can read as points, and fits to them
\* or throws.
ReadableCorners(b) ==
    {i \in 1..Len(b.corners) : b.corners[i].arr /\ Len(b.corners[i].els) = 2}
ReadableFit(b) ==
    LET c == b.corners[CHOOSE i \in ReadableCorners(b) :
                          \A j \in ReadableCorners(b) : i <= j]
    IN  [lat |-> c.els[1], lng |-> c.els[2], zoom |-> 0, how |-> "fitBounds"]
W_fitBounds ==
    /\ wrapper = "wrapper"
    /\ \E b \in BoundsInputs, fitFails \in BOOLEAN :
        IF map = 0
        THEN Call("fitBounds", b, Undefined, FALSE, "none", FALSE) /\ UNCHANGED stateVars
        ELSE IF fitFails \/ b.nul \/ (~BadShape(b) /\ AnyNaN(b))
                \/ (BadShape(b) /\ ReadableCorners(b) = {})
        THEN Call("fitBounds", b, Undefined, TRUE, "none", FALSE) /\ UNCHANGED stateVars
        ELSE /\ view' = IF BadShape(b) THEN ReadableFit(b) ELSE FitOf(b)
             /\ Call("fitBounds", b, Undefined, FALSE, "none", FALSE)
             /\ UNCHANGED <<mapVars, regVars, invVars, drawVars, miniVars, baseVars,
                            mapLayers, mapControls, clickHandlers, nextId>>

\* ============================================================ specifications
\* leafletCrimesWrapper.js: the registry, the click subscription and the life
\* cycle
Next ==
    \/ createMap \/ dispose
    \/ addMarker \/ addCircle \/ addPolygon \/ addPolyline \/ addGeoJson
    \/ addGeoJsonWithPopup
    \/ clearMap
    \/ setupMapClick \/ mapClick

InitCrimes == Init /\ wrapper = "crimes" /\ plugins = AllPlugins
\* either module, loaded on a page that has both plugins
InitBoth == Init /\ plugins = AllPlugins
Spec == InitCrimes /\ [][Next]_vars

\* leafletWrapper.js: the overlays, the base layers and the click subscription
NextW ==
    \/ W_createMap \/ W_setMapType
    \/ W_addMarker \/ W_addCircle \/ W_addPolygon \/ W_addPolyline \/ W_addStructure
    \/ W_addRectangleStructure \/ W_addGeoJson \/ W_addGeoJsonWithPopup
    \/ W_removeLayer \/ W_clearMap
    \/ W_setupMapClick \/ mapClick

InitW == Init /\ wrapper = "wrapper" /\ plugins = AllPlugins
SpecW == InitW /\ [][NextW]_vars

\* the drawing tools, the mini-map, the markers and the life cycle, of either
\* file
NextDraw ==
    \/ createMap \/ dispose
    \/ initDrawTools \/ initDrawToolsAdvanced \/ updateDrawToolsStyle
    \/ enableDrawing \/ disableDrawing \/ clearAllDrawn \/ drawCreated
    \/ addMiniMap \/ removeMiniMap \/ toggleMiniMap
    \/ addMarker
    \/ W_createMap
    \/ W_initDrawTools \/ W_initDrawToolsAdvanced \/ W_updateDrawToolsStyle
    \/ W_enableDrawing \/ W_disableDrawing \/ W_clearAllDrawn
    \/ W_addMiniMap \/ W_removeMiniMap \/ W_toggleMiniMap

SpecDraw == Init /\ [][NextDraw]_vars

\* the drawn shapes and their export and import as GeoJSON, of either file
NextGeo ==
    \/ createMap \/ initDrawTools \/ drawCreated \/ clearAllDrawn
    \/ getDrawnGeoJson \/ addDrawnFromGeoJson
    \/ W_createMap \/ W_initDrawTools \/ W_clearAllDrawn
    \/ W_getDrawnGeoJson \/ W_addDrawnFromGeoJson

SpecGeo == InitBoth /\ [][NextGeo]_vars

\* leafletCrimesWrapper.js: the timeline animation and the life cycle
NextTimeline ==
    \/ createMap \/ dispose
    \/ addTimelineAnimation \/ start \/ stop \/ reset \/ animateNext

SpecTimeline == InitCrimes /\ [][NextTimeline]_vars
\* a timer that was set fires in the end
SpecTimelineFair == SpecTimeline /\ WF_vars(animateNext)

\* the view, of either file
NextView ==
    \/ createMap \/ dispose \/ setView \/ fitBounds
    \/ W_createMap \/ W_setView \/ W_fitBounds

SpecView == InitBoth /\ [][NextView]_vars

\* leafletCrimesWrapper.js: the investigation overlays and the life cycle
NextInv ==
    \/ createMap \/ dispose
    \/ addInvestigationLocation \/ addDirectionArrow
    \/ addInvestigationZone \/ clearInvestigationData \/ getInvestigationGeoJson
    \/ loadInvestigationGeoJson

SpecInv == InitCrimes /\ [][NextInv]_vars

\* leafletCrimesWrapper.js: the direction arrows and the paths made of them
NextPath ==
    \/ createMap \/ dispose
    \/ addDirectionArrow \/ addInvestigationPath \/ clearInvestigationData

SpecPath == InitCrimes /\ [][NextPath]_vars

\* leafletCrimesWrapper.js: the bearing between two points
NextBearing == calculateBearing

SpecBearing == InitCrimes /\ [][NextBearing]_vars

\* ================================================================ properties
\* C1 (leafletCrimesWrapper.js): a clearMap call on a created map leaves all
\* five handle lists empty, and none of the handles the registry tracked when
\* the call was made is still attached to the map.
C1_ClearMapEmptiesRegistry ==
    [][(lastOp' = "clearMap" /\ map # 0) =>
          /\ markers' = <<>> /\ circles' = <<>> /\ polygons' = <<>>
          /\ polylines' = <<>> /\ geoJsonLayers' = <<>>
          /\ Tracked \cap mapLayers' = {}
          /\ ~threw']_vars
\* clearMap has returned on a live map that had three handles tracked
C1_Witness ==
    /\ lastOp = "clearMap" /\ MapLive /\ hadTracked >= 3
    /\ mapLayers = {OsmTiles}

\* C2 (leafletWrapper.js): a clearMap call on a created map leaves exactly the
\* base tile layers that were shown: every overlay is taken off the map and no
\* base tile layer is.
C2_ClearMapLeavesBaseLayers ==
    [][(wrapper = "wrapper" /\ lastOp' = "clearMap" /\ map # 0) =>
          mapLayers' = {layer \in mapLayers : layer.kind = "tile"}]_vars

\* C3 (leafletCrimesWrapper.js): once dispose has been called, every call of an
\* exported operation is a no-op: it does not throw, makes no call on the
\* destroyed map and changes no state.
C3_DisposedIsNoOp ==
    [][isDisposed => (~threw' /\ ~deadCall' /\ UNCHANGED stateVars)]_vars

\* C4 (leafletCrimesWrapper.js): after dispose, a call of addCircle returns no
\* handle, does not throw and leaves the circle list empty, however often it
\* is made.
C4_AddCircleAfterDispose ==
    (isDisposed /\ lastOp = "addCircle") =>
        (ret = Undefined /\ ~threw /\ circles = <<>>)
\* addCircle has returned for the second time in a row after dispose
C4_Witness ==
    isDisposed /\ lastOp = "addCircle" /\ repeated /\ ret = Undefined

\* C5 (leafletCrimesWrapper.js): dispose is idempotent. A dispose call leaves
\* the map absent, the lists empty, the controls and the drawn-items group
\* cleared and the disposed flag set; a second call in a row changes no state,
\* does not throw and makes no call on the destroyed map.
C5_DisposeIdempotent ==
    [][lastOp' = "dispose" =>
          /\ isDisposed' /\ map' = 0
          /\ markers' = <<>> /\ circles' = <<>> /\ polygons' = <<>>
          /\ polylines' = <<>> /\ geoJsonLayers' = <<>>
          /\ drawnItems' = 0 /\ drawControl' = 0 /\ miniMapControl' = 0
          /\ mapLayers' = {} /\ mapControls' = {}
          /\ (lastOp = "dispose" =>
                 (UNCHANGED stateVars /\ ~threw' /\ ~deadCall'))]_vars
\* dispose has returned for the second time in a row, on an adapter whose
\* drawing tools had been initialized
C5_Witness ==
    /\ lastOp = "dispose" /\ repeated /\ isDisposed /\ map = 0 /\ ~threw
    /\ wrapper = "crimes" /\ nextId > 1

\* C6 (both files): while no map has been created, a call of any exported
\* operation other than createMap and dispose is silently ignored: it does not
\* throw to the host and changes no state.
C6_NotReadyIsIgnored ==
    [][(map = 0 /\ ~isDisposed /\ lastOp' \notin {"createMap", "dispose"}) =>
          (~threw' /\ UNCHANGED stateVars)]_vars

\* C7 (both files): after a call of initDrawTools, initDrawToolsAdvanced or
\* updateDrawToolsStyle that set the drawing tools up, exactly one handler is
\* registered for the draw-created event of the map, and a draw event runs
\* exactly one handler.
C7_OneDrawCreatedHandler ==
    /\ (/\ lastOp \in {"initDrawTools", "initDrawToolsAdvanced", "updateDrawToolsStyle"}
        /\ map # 0 /\ ~threw /\ logged = "none") => createdHandlers = 1
    /\ (lastOp = "drawCreated" /\ createdHandlers >= 1) => invoked = 1

\* C8 (both files): an initDrawTools call made when the drawing tools were
\* already initialized replaces the prior instance: the current drawn-items
\* group is a fresh empty one, and the previous group and the previous drawing
\* control are no longer attached to the map.
C8_InitReplacesPrior ==
    [][(/\ lastOp' = "initDrawTools" /\ ~threw' /\ logged' = "none"
        /\ MapLive /\ drawnItems # 0 /\ drawControl # 0) =>
          /\ drawnItems' # drawnItems
          /\ \A layer \in groupLayers' : layer[1] # drawnItems'
          /\ DrawnGroup(drawnItems) \notin mapLayers'
          /\ DrawCtl(drawControl) \notin mapControls']_vars

\* C9 (both files): enableDrawing and disableDrawing are idempotent: the second
\* of two calls in a row of the same one changes no state; and with no drawing
\* control (the uninitialized state) a call of either changes no state and
\* does not throw.
C9_EnableDisableIdempotent ==
    [][lastOp' \in {"enableDrawing", "disableDrawing"} =>
          /\ lastOp = lastOp' => UNCHANGED stateVars
          /\ drawControl = 0 => (UNCHANGED stateVars /\ ~threw')]_vars
\* enableDrawing has returned for the second time in a row with the drawing
\* tools initialized on a live map, and the control is on the map
C9_Witness ==
    /\ lastOp = "enableDrawing" /\ repeated /\ ~threw
    /\ MapLive /\ drawControl # 0 /\ DrawCtl(drawControl) \in mapControls

\* C10 (both files): a call of enableDrawing or disableDrawing leaves the
\* drawn-items group as it was: the same group with the same drawn features,
\* attached to the map or not as before, and the same number of draw-created
\* handlers registered.
C10_EnableDisableKeepDrawnItems ==
    [][lastOp' \in {"enableDrawing", "disableDrawing"} =>
          /\ UNCHANGED <<drawnItems, groupLayers, createdHandlers>>
          /\ (DrawnGroup(drawnItems) \in mapLayers)
               <=> (DrawnGroup(drawnItems') \in mapLayers')]_vars
\* disableDrawing has taken the control off a live map whose drawn-items group
\* holds a drawn shape
C10_Witness ==
    /\ lastOp = "disableDrawing" /\ ~threw /\ MapLive
    /\ drawControl # 0 /\ DrawCtl(drawControl) \notin mapControls
    /\ DrawnGroup(drawnItems) \in mapLayers
    /\ \E p \in groupLayers : p[1] = drawnItems
    /\ createdHandlers >= 1

\* C11 (both files): clearAllDrawn empties the drawn-items group in place. After
\* the call the group holds no features; it is the same group, attached to the
\* map or not as before, with the same drawing control and the same draw-created
\* handlers; and a draw event that follows the call leaves the group with exactly
\* the one new shape.
C11_ClearAllDrawnInPlace ==
    [][/\ (lastOp' = "clearAllDrawn" /\ drawnItems # 0) =>
            /\ ~threw'
            /\ Reachable(drawnItems)' = {}
            /\ UNCHANGED <<drawnItems, drawControl, createdHandlers, mapLayers,
                           mapControls>>
       /\ (lastOp = "clearAllDrawn" /\ lastOp' = "drawCreated" /\ createdHandlers >= 1) =>
            Reachable(drawnItems)' = {<<drawnItems, nextId>>}]_vars
\* clearAllDrawn has emptied, on a live map, an attached group that held two
\* shapes, and the draw-created handler is still registered
C11_Witness ==
    /\ lastOp = "clearAllDrawn" /\ hadDrawn = 2 /\ Reachable(drawnItems) = {}
    /\ MapLive /\ DrawnGroup(drawnItems) \in mapLayers
    /\ DrawCtl(drawControl) \in mapControls /\ createdHandlers >= 1

\* C12 (both files): import merges. When addDrawnFromGeoJson is called with the
\* value the getDrawnGeoJson call before it returned, the drawn-items group,
\* which held N features, holds 2N afterwards.
C12_RoundTripDoubles ==
    [][(lastOp = "getDrawnGeoJson" /\ lastOp' = "addDrawnFromGeoJson" /\ arg' = ret) =>
          Cardinality(Reachable(drawnItems))' = 2 * Cardinality(Reachable(drawnItems))]_vars

\* C13 (leafletCrimesWrapper.js): on a timeline controller, stop called before
\* start is a no-op: it changes nothing in the controller, and the first start,
\* whenever it comes, highlights the first point.
C13_StopBeforeStartIsNoOp ==
    [][/\ (lastOp' = "stop" /\ ~timelineCalls.started) => UNCHANGED timeline
       /\ (lastOp' = "start" /\ ~timelineCalls.started /\ timeline.n > 0) =>
             ret' = Obj("location", 1)]_vars

\* C14 (leafletCrimesWrapper.js): on a timeline controller, reset called after
\* stop is a no-op: from that reset on, and until start is called again, no
\* marker is highlighted and no popup is opened, also when a step scheduled
\* before the stop fires after the reset.
C14_ResetAfterStopIsNoOp ==
    [][(/\ lastOp' \in {"reset", "animateNext"}
        /\ timelineCalls'.stopped /\ timelineCalls'.reset) =>
          (ret' = Undefined /\ timeline'.lit \subseteq timeline.lit)]_vars

\* C15 (both files): with a click handler set up, each click on the map makes
\* exactly one call of the host's click handler, however often setupMapClick
\* was called on the map; and nothing but a click makes such a call.
C15_OneHostCallPerClick ==
    /\ (lastOp = "mapClick" /\ clickHandlers >= 1) => invoked = 1
    /\ lastOp \notin {"mapClick", "drawCreated"} => invoked = 0

\* C16 (both files): fitBounds called on a map with a bounds value of the wrong
\* shape logs an error, does not throw and leaves the view of the map as it was.
C16_MalformedBoundsRejected ==
    [][(lastOp' = "fitBounds" /\ map # 0 /\ BadShape(arg')) =>
          (logged' = "error" /\ ~threw' /\ view' = view)]_vars

\* C17 (leafletCrimesWrapper.js): fitBounds called on a map with two well-shaped
\* corners of which a coordinate is NaN or not a number is rejected: an error
\* is logged, nothing is thrown and the view is as it was; also when the two
\* corners are equal.
C17_NonNumericBoundsRejected ==
    [][(/\ wrapper = "crimes" /\ lastOp' = "fitBounds" /\ map # 0
        /\ ~BadShape(arg') /\ AnyNaN(arg')) =>
          (logged' = "error" /\ ~threw' /\ view' = view)]_vars

\* C18 (leafletCrimesWrapper.js): fitBounds called on a live map with numeric
\* bounds whose two corners are the same point centres the map on that point at
\* zoom 10 through setView, not through the widget's fit; it throws nothing and
\* logs nothing.
C18_SamePointRecentres ==
    [][(/\ wrapper = "crimes" /\ lastOp' = "fitBounds" /\ MapLive
        /\ ~BadShape(arg') /\ ~AnyNaN(arg')
        /\ MinLat(arg') = MaxLat(arg') /\ MinLng(arg') = MaxLng(arg')) =>
          /\ view' = [lat |-> MinLat(arg'), lng |-> MinLng(arg'), zoom |-> 10,
                      how |-> "setView"]
          /\ ~threw' /\ logged' = "none"]_vars
\* fitBounds has returned for the same-point bounds [[2,2],[2,2]] on a live map
\* whose view was elsewhere
C18_Witness ==
    /\ wrapper = "crimes" /\ lastOp = "fitBounds" /\ MapLive
    /\ arg = Bounds(<<Corner(Num(2), Num(2)), Corner(Num(2), Num(2))>>)
    /\ view.lat = Num(2) /\ view.zoom = 10

\* C19 (leafletCrimesWrapper.js): fitBounds called on a live map with numeric
\* bounds of two different corners either fits the view to them, or, when the
\* widget's fit threw, throws nothing to the host, logs an error and centres the
\* map on the midpoint of the two corners at zoom 8.
C19_FitFailureFallsBack ==
    [][(/\ wrapper = "crimes" /\ lastOp' = "fitBounds" /\ MapLive
        /\ ~BadShape(arg') /\ ~AnyNaN(arg') /\ ~SamePoint(arg')) =>
          \/ view' = FitOf(arg') /\ ~threw' /\ logged' = "none"
          \/ /\ ~threw' /\ logged' = "error"
             /\ view' = [lat |-> Num((MinLat(arg').v + MaxLat(arg').v) \div 2),
                         lng |-> Num((MinLng(arg').v + MaxLng(arg').v) \div 2),
                         zoom |-> 8, how |-> "setView"]]_vars
\* fitBounds has returned after the fit of [[0,0],[2,2]] threw on a live map: the
\* error is logged and the view is the midpoint at zoom 8
C19_Witness ==
    /\ wrapper = "crimes" /\ lastOp = "fitBounds" /\ MapLive /\ ~threw
    /\ arg = Bounds(<<Corner(Num(0), Num(0)), Corner(Num(2), Num(2))>>)
    /\ logged = "error" /\ view.lat = Num(1) /\ view.zoom = 8

\* C20 (leafletCrimesWrapper.js): addInvestigationPath called on a live map with
\* n >= 2 points appends to the direction-arrows group the continuous line, then
\* for each of the n-1 consecutive pairs in order an arrow line and an arrowhead,
\* with a label marker after the first pair's arrowhead exactly when the label is
\* not empty: 1 + 2(n-1) + (1 if labelled) overlays; it returns the line.
C20_PathOverlays ==
    [][(/\ lastOp' = "addInvestigationPath" /\ MapLive
        /\ arg'.id >= 2) =>
          LET n == arg'.id
              L == IF arg' = Obj("points, label", n) THEN 1 ELSE 0
              before == directionArrows.items
              after == directionArrows'.items
              added == SubSeq(after, Len(before) + 1, Len(after))
          IN  /\ ~threw' /\ ret' = Obj("path", 0)
              /\ SubSeq(after, 1, Len(before)) = before
              /\ Len(added) = 1 + 2 * (n - 1) + L
              /\ added[1] = "path" /\ added[2] = "arrow" /\ added[3] = "arrowhead"
              /\ L = 1 => added[4] = "label"
              /\ \A i \in 2..(n - 1) :
                    added[2 * i + L] = "arrow" /\ added[2 * i + 1 + L] = "arrowhead"
              /\ directionArrows'.on]_vars
\* addInvestigationPath([p0, p1, p2], label) has returned on a live map whose
\* direction-arrows group was empty: one line and two arrow triplets, the first
\* with the label
C20_Witness ==
    /\ lastOp = "addInvestigationPath" /\ MapLive /\ ~threw
    /\ arg = Obj("points, label", 3)
    /\ directionArrows.items =
          <<"path", "arrow", "arrowhead", "label", "arrow", "arrowhead">>

\* C21 (leafletCrimesWrapper.js): each of addMarker, addCircle, addPolygon,
\* addPolyline, addGeoJson and addGeoJsonWithPopup, called on a live map, puts
\* exactly one handle at the end of its own tracking list, leaves the other four
\* lists as they were, returns that handle and has attached it to the map; so
\* each list is in invocation order.
C21_AddAppendsOneHandle ==
    [][(lastOp' \in {"addMarker", "addCircle", "addPolygon", "addPolyline",
                     "addGeoJson", "addGeoJsonWithPopup"} /\ MapLive) =>
          /\ ~threw' /\ ret' \in mapLayers'
          /\ markers' = IF lastOp' = "addMarker" THEN Append(markers, ret') ELSE markers
          /\ circles' = IF lastOp' = "addCircle" THEN Append(circles, ret') ELSE circles
          /\ polygons' = IF lastOp' = "addPolygon" THEN Append(polygons, ret')
                         ELSE polygons
          /\ polylines' = IF lastOp' = "addPolyline" THEN Append(polylines, ret')
                          ELSE polylines
          /\ geoJsonLayers' = IF lastOp' \in {"addGeoJson", "addGeoJsonWithPopup"}
                              THEN Append(geoJsonLayers, ret') ELSE geoJsonLayers]_vars
\* addCircle has returned the second circle on a live map that also tracks a
\* marker
C21_Witness ==
    /\ lastOp = "addCircle" /\ MapLive /\ Len(markers) = 1 /\ Len(circles) = 2
    /\ ret = circles[2] /\ ret # circles[1]

\* C22 (leafletCrimesWrapper.js): for every pair of geographic points the
\* bearing calculateBearing returns is at least 0 and less than 360, and for two
\* identical points it is 0.
C22_BearingInRange ==
    lastOp = "calculateBearing" =>
        /\ ret.t = "num" /\ 0 <= ret.v /\ ret.v < 360
        /\ arg.from = arg.to => ret.v = 0
\* the bearing from (0, 0) due west to (0, -90) was computed: the arctangent is
\* negative and the result is 270
C22_Witness ==
    /\ lastOp = "calculateBearing"
    /\ arg = [from |-> <<0, 0>>, to |-> <<0, -90>>]
    /\ ret = Num(270)

\* C23 (leafletCrimesWrapper.js): disposal is permanent: once isDisposed is set
\* no operation clears it, and in every state in which it is set the map is
\* absent and the five tracking lists are empty; createMap creates no map and
\* no add operation tracks a handle.
C23_DisposalIsPermanent ==
    [][/\ isDisposed => isDisposed'
       /\ isDisposed' =>
             /\ map' = 0
             /\ markers' = <<>> /\ circles' = <<>> /\ polygons' = <<>>
             /\ polylines' = <<>> /\ geoJsonLayers' = <<>>]_vars
\* createMap was called after dispose: it warned and created no map
C23_Witness ==
    /\ isDisposed /\ lastOp = "createMap" /\ logged = "warn"
    /\ map = 0 /\ Tracked = {} /\ mapLayers = {}

\* C24 (leafletCrimesWrapper.js): in every reachable state with a live map every
\* handle held in a tracking list is an overlay attached to that map; after a
\* second createMap no handle of the destroyed map is left in any list.
C24_TrackedAreAttached ==
    (wrapper = "crimes" /\ MapLive) => Tracked \subseteq mapLayers

\* C25: in every reachable state with a live map at most one drawing control is
\* attached to the map, and an attached drawing control is the one drawControl
\* holds, bound to the current drawn-items group.
C25_AtMostOneDrawControl ==
    MapLive =>
        \A c \in mapControls :
            c.kind = "draw" => (drawControl # 0 /\ c = DrawCtl(drawControl)
                                /\ drawControl = drawnItems)

\* C26 (leafletCrimesWrapper.js): under any interleaving of start, stop, reset
\* and timer firings at most one scheduled step of the timeline animation is
\* pending and at most one timeline marker is at full opacity.
C26_OnePendingStep ==
    timeline.made => (timeline.pending <= 1 /\ Cardinality(timeline.lit) <= 1)

\* C27 (leafletCrimesWrapper.js): while start is the only call made on a
\* timeline of n points, start works on index 0 and every step (start and each
\* timer) either highlights the next marker, in order, leaves it the only one at
\* full opacity and schedules exactly one further step, or, after the n-th was
\* highlighted, dims it and leaves no timer pending; that last step does come.
\* After stop, with no later reset or start, no step highlights a marker.
C27_RunsThroughAndEnds ==
    /\ [][/\ (/\ lastOp' \in {"start", "animateNext"}
               /\ timelineCalls'.started /\ timelineCalls'.calls = 1) =>
                 /\ lastOp' = "start" => timeline.currentIndex = 0
                 /\ IF timeline.currentIndex < timeline.n
                    THEN /\ ret' = Obj("location", timeline.currentIndex + 1)
                         /\ timeline'.lit = {timeline.currentIndex + 1}
                         /\ timeline'.currentIndex = timeline.currentIndex + 1
                         /\ timeline'.pending = 1
                    ELSE /\ ret' = Undefined
                         /\ timeline'.lit = {}
                         /\ timeline'.currentIndex = timeline.n
                         /\ timeline'.pending = 0
          /\ (/\ lastOp' = "animateNext"
              /\ timelineCalls'.stopped /\ ~timelineCalls'.reset) =>
                 (ret' = Undefined /\ timeline'.lit \subseteq timeline.lit)]_vars
    /\ (timelineCalls.started /\ timelineCalls.calls = 1)
          ~> \/ ~(timelineCalls.started /\ timelineCalls.calls = 1)
             \/ /\ timeline.pending = 0 /\ timeline.lit = {}
                /\ timeline.currentIndex = timeline.n
\* a timeline of three points was started once and has run to its end: the
\* last timer has fired, nothing is lit and no timer is pending
C27_Witness ==
    /\ lastOp = "animateNext" /\ timelineCalls.started /\ timelineCalls.calls = 1
    /\ timeline.n = 3 /\ timeline.currentIndex = 3
    /\ timeline.lit = {} /\ timeline.pending = 0

\* C28 (leafletCrimesWrapper.js): after clearInvestigationData on a live map no
\* overlay made by the investigation operations is attached to the map: the
\* investigation-markers group and the direction-arrows group are empty and no
\* zone circle is a layer of the map.
C28_ClearInvestigationClearsAll ==
    (lastOp = "clearInvestigationData" /\ MapLive) =>
        /\ ~threw
        /\ investigationMarkers.items = <<>> /\ directionArrows.items = <<>>
        /\ \A o \in mapLayers : o.kind # "zone"
====